---- MODULE Spec2Model ----
(***************************************************************************)
(* Travel planner workflow: the LangGraph StateGraph of                    *)
(* src/graph/workflow.py, its nodes (src/graph/nodes.py, src/agents/*.py), *)
(* its conditional edges (src/graph/edges.py), the AgentState reducers     *)
(* (src/models/state.py) and the three boundaries that invoke the graph    *)
(* for one session/thread: the REST routes, the CLI and the WebSocket.     *)
(*                                                                         *)
(* One session (one thread_id) is modelled.  `state` is the value of the   *)
(* thread's latest checkpoint; a node execution is one step of the         *)
(* executor: run the node on `state`, merge its partial update through the *)
(* reducers, evaluate the outgoing edge.  The answers of the language      *)
(* model are inputs, drawn from small sets.                                *)
(***************************************************************************)
EXTENDS Integers, Sequences, FiniteSets, TLC

VARIABLES
    state,        \* AgentState: the values of the thread's latest checkpoint
    pc,           \* node the executor runs next, or "END" (no invocation running)
    status,       \* how the latest invocation stands / ended
    steps,        \* node executions (supersteps) of the running invocation
    invocations,  \* graph invocations made for this thread so far
    interrupt_before, \* interrupt_before argument of the running invocation
    caller,       \* the boundary driving the session and its position
    tasks,        \* WebSocket session: the planning tasks created for it
    browser_cache, \* BrowserCache singleton of the process, the attraction
                  \*   searches using it and the calls they made downstream
    h             \* history of the session (observations for the properties):
                  \*   entry: how the running invocation was started -- "run" (new
                  \*     input), "resume" (answers for a suspended session),
                  \*     "resume_late" (answers for a session that is not
                  \*     suspended), "rerun" (the CLI invoking again with the state)
                  \*   lastNode, prevNode, firstNode: nodes called in this invocation
                  \*   lastReturned: the last node call returned (did not raise)
                  \*   nodesRun: node executions of this invocation
                  \*   sessionNodes: node executions of all invocations
                  \*   finalWrites: writes of final_itinerary since the latest Run
                  \*   plannerStarted: the planner was called since the latest Run
                  \*   criticIter, oracleRequires: iteration_count read and flag
                  \*     returned by the oracle in the last critic pass
                  \*   allReplan: the oracle asked to replan in every pass so far
                  \*   research: what the calls of each city did in the latest
                  \*     research pass

vars == <<state, pc, status, steps, invocations, interrupt_before, caller, h, tasks,
          browser_cache>>

----------------------------------------------------------------------------
(* Program constants *)

MAX_REPLAN_ITERATIONS == 3
MAX_GRAPH_ITERATIONS == 20
RecursionLimit == MAX_GRAPH_ITERATIONS + 20

(* Bounds of the model *)

\* graph invocations the REST boundary makes for the thread
MaxInvocations == 2

----------------------------------------------------------------------------
(* Optional values: Python None and a present value *)

None == <<>>
Some(v) == <<v>>
IsNone(o) == o = None
Val(o) == o[1]

\* Python truthiness of an Optional[bool], Optional[list/str], Optional[dict]
TruthyBool(o) == o = Some(TRUE)
TruthySeq(o) == o # None /\ Val(o) # <<>>
TruthyDict(o) == o # None /\ DOMAIN Val(o) # {}

----------------------------------------------------------------------------
(* Inputs: what the user and the oracle may supply *)

QuestionIds == {"travel_dates", "origin_city"}

\* what the oracle may answer to the clarification agent (ClarificationOutput):
\* complete request; questions to ask; clarification wanted but no question
ClarificationOutputs ==
    { [needs_clarification |-> FALSE, questions |-> <<>>],
      [needs_clarification |-> TRUE, questions |-> <<"travel_dates", "origin_city">>],
      [needs_clarification |-> TRUE, questions |-> <<>>] }

AnswerText(q) == IF q = "travel_dates" THEN "2026-01-15 to 2026-01-22" ELSE "Delhi"

\* answer maps a client may send: {} or an answer to every question id
AnswerMaps == {[q \in S |-> AnswerText(q)] : S \in {{}, QuestionIds}}

\* CLI: answers[q_id] = answer for every question asked
AnswersTo(questions) ==
    [q \in {questions[i] : i \in DOMAIN questions} |-> AnswerText(q)]

\* ValidationIssue lists the oracle may report
NoIssues == <<>>
MediumIssue == <<[category |-> "timing", severity |-> "medium"]>>
CriticalIssue == <<[category |-> "budget", severity |-> "critical"]>>
ThreeHighIssues == <<[category |-> "timing", severity |-> "high"],
                     [category |-> "logistics", severity |-> "high"],
                     [category |-> "balance", severity |-> "high"]>>

\* PlannerOutput: total_days and city_allocations
PlannerOutputs ==
    { [total_days |-> 3,
       city_allocations |-> <<[city |-> "Tokyo", days |-> 2, visit_order |-> 1],
                              [city |-> "Kyoto", days |-> 1, visit_order |-> 2]>>] }

----------------------------------------------------------------------------
(* AgentState and its reducers *)

get_initial_state ==
    [ messages |-> <<>>,
      user_request |-> <<"request">>,
      clarification_needed |-> None,
      clarification_questions |-> None,
      clarification_answers |-> None,
      origin_city |-> None,
      travel_start_date |-> None,
      travel_end_date |-> None,
      travel_date_flexibility |-> None,
      trip_summary |-> None,
      city_allocations |-> None,
      route_validation |-> None,
      attractions |-> <<>>,
      hotels |-> <<>>,
      research_sources |-> <<>>,
      food_recommendations |-> None,
      budget_breakdown |-> None,
      validation_result |-> None,
      critic_feedback |-> None,
      iteration_count |-> 0,
      final_itinerary |-> None ]

\* Annotated[list, add]
AppendFields == {"attractions", "hotels", "research_sources"}

\* A message is [name, id]; id 0 is a message that has no id yet.
Msg(name) == [name |-> name, id |-> 0]

\* variant of add_messages: every message is appended, ids are not matched
add_messages_appends(left, right) ==
    left \o [i \in DOMAIN right |-> [right[i] EXCEPT !.id = Len(left) + i]]

RECURSIVE add_messages(_, _)
\* langgraph add_messages: a message whose id is already in the list replaces
\* that entry, any other message is appended (and given a fresh id).
add_messages(left, right) ==
    IF right = <<>> THEN left
    ELSE LET m == Head(right)
             hit == {i \in DOMAIN left : m.id # 0 /\ left[i].id = m.id}
             merged == IF hit # {}
                       THEN [i \in DOMAIN left |-> IF i \in hit THEN m ELSE left[i]]
                       ELSE Append(left, [m EXCEPT !.id =
                                IF m.id = 0 THEN Len(left) + 1 ELSE m.id])
         IN add_messages(merged, Tail(right))

\* variant of the reducers: an append field puts the new items first
ReducePrepends(k, old, new) ==
    IF k \in AppendFields THEN new \o old
    ELSE IF k = "messages" THEN add_messages(old, new)
    ELSE new

Reduce(k, old, new) ==
    IF k \in AppendFields THEN old \o new
    ELSE IF k = "messages" THEN add_messages(old, new)
    ELSE new

\* the executor merges a partial update (or an input) into the state
ApplyWrites(st, upd) ==
    [k \in DOMAIN st |-> IF k \in DOMAIN upd THEN Reduce(k, st[k], upd[k]) ELSE st[k]]

----------------------------------------------------------------------------
(* Nodes: each operator is the set of partial updates the node can return   *)
(* in state st, one per answer of the oracle.                               *)

Nodes == {"clarification", "process_answers", "planner", "geography", "research",
          "food_culture", "transport_budget", "critic", "finalize"}

clarification_node(st) ==
    { [ clarification_needed |-> Some(result.needs_clarification),
        clarification_questions |-> Some(result.questions),
        messages |-> <<Msg("clarification")>> ] : result \in ClarificationOutputs }

\* the result of parse_travel_dates on the date answers of the model
parse_travel_dates(date_answer) ==
    IF date_answer = "2026-01-15 to 2026-01-22"
    THEN [start_date |-> Some("2026-01-15"), end_date |-> Some("2026-01-22"),
          flexibility |-> "specific"]
    ELSE [start_date |-> None, end_date |-> None, flexibility |-> "specific"]

process_answers_node(st) ==
    IF IsNone(st.clarification_answers) THEN {}   \* answers.get on None raises
    ELSE
    LET answers == Val(st.clarification_answers)
        has(q) == q \in DOMAIN answers
        parsed == parse_travel_dates(answers["travel_dates"])
        dates == IF has("travel_dates") /\ parsed.start_date # None /\ parsed.end_date # None
                 THEN <<"IMPORTANT - Travel dates">> ELSE <<>>
        origin == IF has("origin_city") THEN <<"IMPORTANT - Traveling from">> ELSE <<>>
    IN { [ user_request |-> st.user_request \o dates \o origin,
           origin_city |-> IF has("origin_city") THEN Some(answers["origin_city"]) ELSE None,
           travel_start_date |-> IF has("travel_dates") THEN parsed.start_date ELSE None,
           travel_end_date |-> IF has("travel_dates") THEN parsed.end_date ELSE None,
           travel_date_flexibility |->
               IF has("travel_dates") THEN Some(parsed.flexibility) ELSE None,
           messages |-> <<Msg("process_answers")>> ] }

\* PlannerAgent.run: the feedback is only part of the prompt; the update
\* always clears critic_feedback
PlannerUpdate(result) ==
    [ trip_summary |-> Some([total_days |-> result.total_days]),
      city_allocations |-> Some(result.city_allocations),
      critic_feedback |-> None,
      messages |-> <<Msg("planner")>> ]

planner_node(st) == { PlannerUpdate(result) : result \in PlannerOutputs }

\* GeographyOutput: whether the route is valid, whether the oracle changed the
\* order, and the order it proposes
GeographyResult(valid, changed, order) ==
    [route_is_valid |-> valid, route_changed |-> changed, optimized_order |-> order]

RECURSIVE Reordered(_, _, _)
\* geography.py:159-166 -- the allocations named by optimized_order from its
\* i-th entry on, each a copy of the last allocation of that city with
\* visit_order set to the entry's position
Reordered(city_allocations, optimized_order, i) ==
    IF i > Len(optimized_order) THEN <<>>
    ELSE LET named == { c \in DOMAIN city_allocations :
                          city_allocations[c].city = optimized_order[i] }
             last == CHOOSE c \in named : \A e \in named : e <= c
         IN (IF named = {} THEN <<>>
             ELSE <<[city_allocations[last] EXCEPT !.visit_order = i]>>)
            \o Reordered(city_allocations, optimized_order, i + 1)

\* GeographyAgent.run and geography_node: the update for one answer of the
\* oracle; city_allocations is written only if the reordered list is not empty
GeographyUpdate(st, result) ==
    LET city_allocations == IF IsNone(st.city_allocations) THEN <<>>
                            ELSE Val(st.city_allocations)
        updated_allocations == IF result.route_changed
                               THEN Reordered(city_allocations, result.optimized_order, 1)
                               ELSE <<>>
        base == [ route_validation |-> Some([is_valid |-> result.route_is_valid,
                                             optimized_order |-> result.optimized_order,
                                             route_changed |-> result.route_changed]),
                  messages |-> <<Msg("geography")>> ]
    IN IF city_allocations = <<>>
       THEN [ route_validation |-> Some([is_valid |-> FALSE, route_changed |-> FALSE]),
              messages |-> <<Msg("geography")>> ]
       ELSE IF updated_allocations # <<>>
       THEN base @@ [city_allocations |-> Some(updated_allocations)]
       ELSE base

\* the oracle finds the planner's route valid and leaves it
geography_node(st) == { GeographyUpdate(st, GeographyResult(TRUE, FALSE, <<>>)) }

\* F applied to the value of x, x being computed once
With(x, F(_)) == CHOOSE y \in { F(v) : v \in {x} } : TRUE

\* what the calls of one research_city may do: the attractions search
\* (raises, answers an error, answers no place, answers places), the
\* structuring call, the fallback call, and the same for hotels
ResearchOutcome(api, structure, fallback, hotels_api, hotels_fallback) ==
    [api |-> api, structure |-> structure, fallback |-> fallback,
     hotels_api |-> hotels_api, hotels_fallback |-> hotels_fallback]

\* every call succeeds
NominalOutcome == ResearchOutcome("data", "found", "found", "data", "found")

\* an entry of research_sources: the text's prefix, the city, the subject
Source(prefix, city, subject) == <<prefix, city, subject>>

\* research.py:178-180 -- the marker left by a subtask that raised
ErrorMarker(city) == Source("Error researching", city, "")

\* variant of the marker: the handler of a raise leaves no entry
ResearchCityUnmarked(city, sources) == sources

\* research.py:178-180 -- except Exception: the marker is appended
ResearchCityRaised(city, sources) == sources \o <<ErrorMarker(city)>>

\* research.py:95-182 -- research_city: (attractions, hotels, sources) of one
\* allocation; `pass` tells what the oracle structures or generates in a replan
\* pass from the earlier ones, the hotel search answers the same every time
research_city(allocation, o, pass) ==
    LET city == allocation.city
        api_failed == o.api \in {"exception", "error"}
        api_source == IF api_failed THEN <<>>
                      ELSE <<Source("Google Places API", city, "attractions")>>
        raised == o.api = "data" /\ o.structure = "raises"
        structured == IF o.api = "data" /\ o.structure = "found"
                      THEN <<[city |-> city, name |-> <<"attraction", pass>>,
                              estimated_duration_hours |-> 2]>>
                      ELSE <<>>
        fallback_attractions ==
            IF (api_failed \/ structured = <<>>) /\ o.fallback = "found"
            THEN <<[city |-> city, name |-> <<"fallback", pass>>,
                    estimated_duration_hours |-> 2]>>
            ELSE <<>>
        city_attractions == IF fallback_attractions # <<>> THEN fallback_attractions
                            ELSE structured
        fallback_source == IF fallback_attractions # <<>>
                           THEN <<Source("LLM Knowledge Base", city, "attractions")>>
                           ELSE <<>>
        hotels_api_failed == o.hotels_api \in {"exception", "error"}
        api_hotels == IF o.hotels_api = "data"
                      THEN <<[city |-> city, name |-> <<"hotel">>]>> ELSE <<>>
        hotels_source == IF hotels_api_failed THEN <<>>
                         ELSE <<Source("Google Places API", city, "hotels")>>
        fallback_hotels ==
            IF (hotels_api_failed \/ api_hotels = <<>>) /\ o.hotels_fallback = "found"
            THEN <<[city |-> city, name |-> <<"fallback hotel", pass>>]>>
            ELSE <<>>
        city_hotels == IF fallback_hotels # <<>> THEN fallback_hotels ELSE api_hotels
        hotels_fallback_source == IF fallback_hotels # <<>>
                                  THEN <<Source("LLM Knowledge Base", city, "hotels")>>
                                  ELSE <<>>
    IN IF city = "" THEN [attractions |-> <<>>, hotels |-> <<>>, sources |-> <<>>]
       ELSE IF raised
       THEN [attractions |-> <<>>, hotels |-> <<>>,
             sources |-> ResearchCityRaised(city, api_source)]
       ELSE [attractions |-> city_attractions,
             hotels |-> city_hotels,
             sources |-> api_source \o fallback_source
                         \o hotels_source \o hotels_fallback_source]

RECURSIVE Extend(_, _, _)
\* research.py:188-191 -- the results of the cities, in the order of the
\* allocations
Extend(results, field, i) ==
    IF i > Len(results) THEN <<>>
    ELSE results[i][field] \o Extend(results, field, i + 1)

\* variant of the collection of the subtasks' results: in the order in which
\* the subtasks finished (finished[i] is the position of subtask i)
gather_as_completed(results, finished) ==
    [k \in DOMAIN results |->
        results[CHOOSE i \in DOMAIN results : finished[i] = k]]

\* research.py:186 -- asyncio.gather(*city_tasks): the results in the order of
\* the tasks given, whenever each of them finished
gather(results, finished) == results

\* ResearchAgent.run and research_node: the update of one research pass in
\* which the calls for allocation i do outcomes[i] and the subtask of
\* allocation i is the finished[i]-th to finish
ResearchUpdateIn(st, outcomes, finished) ==
    LET allocs == IF IsNone(st.city_allocations) THEN <<>> ELSE Val(st.city_allocations)
    IN IF allocs = <<>>
       THEN [ attractions |-> <<>>, research_sources |-> <<>>,
              messages |-> <<Msg("research")>> ]
       ELSE With(gather([i \in DOMAIN allocs |->
                            research_city(allocs[i], outcomes[i], st.iteration_count)],
                        finished),
                 LAMBDA results :
                    [ attractions |-> Extend(results, "attractions", 1),
                      hotels |-> Extend(results, "hotels", 1),
                      research_sources |-> Extend(results, "sources", 1),
                      messages |-> <<Msg("research")>> ])

\* a research pass whose subtasks finish in the order they were started
ResearchUpdate(st, outcomes) ==
    ResearchUpdateIn(st, outcomes,
                     [i \in DOMAIN (IF IsNone(st.city_allocations) THEN <<>>
                                    ELSE Val(st.city_allocations)) |-> i])

\* a research pass in which every call succeeds
research_node(st) ==
    LET allocs == IF IsNone(st.city_allocations) THEN <<>> ELSE Val(st.city_allocations)
    IN { ResearchUpdate(st, [i \in DOMAIN allocs |-> NominalOutcome]) }

\* FoodCultureAgent.run: one lunch recommendation per city of the allocations
food_culture_node(st) ==
    LET allocs == IF IsNone(st.city_allocations) THEN <<>> ELSE Val(st.city_allocations)
    IN
    { [ food_recommendations |->
            Some([i \in DOMAIN allocs |-> [city |-> allocs[i].city, meal_type |-> "lunch"]]),
        messages |-> <<Msg("food_culture")>> ] }

transport_budget_node(st) ==
    { [ budget_breakdown |-> Some([total |-> 100]),
        messages |-> <<Msg("transport_budget")>> ] }

CriticResult(valid, issues, replan, focus, instructions) ==
    [ is_valid |-> valid, issues |-> issues, requires_replanning |-> replan,
      replan_focus |-> focus, replan_instructions |-> instructions,
      final_recommendations |-> <<"book ahead">> ]

\* what the oracle may answer to the critic (CriticOutput): the schema leaves
\* the flag, the issue list and the optional replan texts independent
CriticOutputs ==
    { CriticResult(TRUE, NoIssues, FALSE, None, None),
      CriticResult(TRUE, MediumIssue, FALSE, None, None),
      CriticResult(FALSE, CriticalIssue, FALSE, None, None),
      CriticResult(FALSE, CriticalIssue, TRUE, Some("timing"), Some("Reduce Day 2")),
      CriticResult(FALSE, ThreeHighIssues, TRUE, None, None),
      CriticResult(TRUE, MediumIssue, TRUE, None, None) }

SyntheticIssue == [category |-> "process", severity |-> "medium"]

\* variant of the cap test: the cap never applies
ForceApproveNever(iteration, result) ==
    FALSE /\ iteration >= MAX_REPLAN_ITERATIONS /\ result.requires_replanning

\* variant of the cap test: the cap applies one pass late
ForceApproveOffByOne(iteration, result) ==
    iteration > MAX_REPLAN_ITERATIONS /\ result.requires_replanning

\* variant of the cap test: every requested replan is turned into an approval
ForceApproveAlways(iteration, result) ==
    result.requires_replanning

\* critic.py:134 -- the cap turns a requested replan into an approval
ForceApprove(iteration, result) ==
    iteration >= MAX_REPLAN_ITERATIONS /\ result.requires_replanning

\* variant of the cap check: approval is forced without recording the issue
AfterCapCheckSilent(iteration, result) ==
    IF ForceApprove(iteration, result)
    THEN [result EXCEPT !.is_valid = TRUE, !.requires_replanning = FALSE]
    ELSE result

\* critic.py:133-144 -- the oracle's result after the iteration-cap check
AfterCapCheck(iteration, result) ==
    IF ForceApprove(iteration, result)
    THEN [result EXCEPT !.is_valid = TRUE,
                        !.requires_replanning = FALSE,
                        !.issues = Append(@, SyntheticIssue)]
    ELSE result

\* critic.py:170-192 -- "\n".join(feedback_parts), as the list of its lines
FeedbackText(result) ==
    LET IsSevere(i) == i.severity \in {"critical", "high"}
        severe == SelectSeq(result.issues, IsSevere)
    IN (IF result.replan_focus # None THEN <<"Focus area">> ELSE <<>>)
       \o (IF result.replan_instructions # None THEN <<"Instructions">> ELSE <<>>)
       \o (IF severe # <<>>
           THEN <<"Critical issues to address:">>
                \o [i \in DOMAIN severe |-> severe[i].category]
           ELSE <<>>)

\* critic.py:166-197 -- the state update built from the (capped) result
CriticUpdate(iteration, result) ==
    LET base == [ validation_result |->
                      Some([ is_valid |-> result.is_valid,
                             issues |-> result.issues,
                             requires_replanning |-> result.requires_replanning,
                             final_recommendations |-> result.final_recommendations ]),
                  messages |-> <<Msg("critic")>> ]
    IN IF result.requires_replanning
       THEN base @@ [ critic_feedback |-> Some(FeedbackText(result)),
                      iteration_count |-> iteration + 1 ]
       ELSE base @@ [ critic_feedback |-> None ]

critic_node(st) ==
    { CriticUpdate(st.iteration_count, AfterCapCheck(st.iteration_count, result)) :
      result \in CriticOutputs }

RECURSIVE SortByVisitOrder(_)
\* sorted(city_allocations, key=visit_order) (stable)
SortByVisitOrder(s) ==
    IF s = <<>> THEN <<>>
    ELSE LET m == CHOOSE i \in DOMAIN s :
                    /\ \A j \in DOMAIN s : s[i].visit_order <= s[j].visit_order
                    /\ \A j \in 1..(i - 1) : s[j].visit_order > s[i].visit_order
             rest == [k \in 1..(Len(s) - 1) |-> IF k < m THEN s[k] ELSE s[k + 1]]
         IN <<s[m]>> \o SortByVisitOrder(rest)

Min(a, b) == IF a <= b THEN a ELSE b
Max(a, b) == IF a >= b THEN a ELSE b

\* s[:n]
Take(s, n) == SubSeq(s, 1, Min(n, Len(s)))

RECURSIVE DedupByName(_, _)
\* nodes.py:394-400 -- the first attraction of every non-empty name, in order
\* (a name is a tuple; the empty name is <<>>)
DedupByName(s, seen_names) ==
    IF s = <<>> THEN <<>>
    ELSE IF Head(s).name # <<>> /\ Head(s).name \notin seen_names
         THEN <<Head(s)>> \o DedupByName(Tail(s), seen_names \cup {Head(s).name})
         ELSE DedupByName(Tail(s), seen_names)

\* nodes.py:392-404 -- the attractions of a city: filtered, de-duplicated, capped
CityAttractions(attractions, city, days_in_city) ==
    LET OfCity(a) == a.city = city
    IN Take(DedupByName(SelectSeq(attractions, OfCity), {}), days_in_city * 4)

\* variant of the share of a day: the remainder goes to the latest days
attractions_today_late(base_per_day, extra, days_in_city, day_offset) ==
    base_per_day + (IF day_offset >= days_in_city - extra THEN 1 ELSE 0)

\* nodes.py:438 -- the number of attractions of one day
attractions_today(base_per_day, extra, days_in_city, day_offset) ==
    base_per_day + (IF day_offset < extra THEN 1 ELSE 0)

RECURSIVE attraction_idx(_, _, _, _)
\* nodes.py:417, 440 -- the running index: the attractions given to the days
\* before day_offset
attraction_idx(base_per_day, extra, days_in_city, day_offset) ==
    IF day_offset = 0 THEN 0
    ELSE attraction_idx(base_per_day, extra, days_in_city, day_offset - 1)
         + attractions_today(base_per_day, extra, days_in_city, day_offset - 1)

\* nodes.py:413-443 -- the slice of the city's attractions given to one day
DayAttractions(city_attractions, days_in_city, day_offset) ==
    LET total_attractions == Len(city_attractions)
        base_per_day == IF days_in_city > 0 THEN total_attractions \div days_in_city ELSE 0
        extra == IF days_in_city > 0 THEN total_attractions % days_in_city ELSE 0
        idx == attraction_idx(base_per_day, extra, days_in_city, day_offset)
        today == attractions_today(base_per_day, extra, days_in_city, day_offset)
    IN Take(SubSeq(city_attractions, idx + 1, idx + today), 4)

\* variant of the end of a slot: the half-day's last hour does not cap it
EndHourUncapped(current_hour, duration, last_hour) == current_hour + duration

\* nodes.py:452-455, 478-481 -- the end of a slot, capped at the half-day's
\* last hour
EndHour(current_hour, duration, last_hour) == Min(current_hour + duration, last_hour)

RECURSIVE HalfDay(_, _, _)
\* nodes.py:450-463 and 476-489 -- the attractions of a half-day from
\* current_hour on, none ending after last_hour
HalfDay(attrs, current_hour, last_hour) ==
    IF attrs = <<>> THEN <<>>
    ELSE LET attr == Head(attrs)
             duration == Max(1, attr.estimated_duration_hours)
             end_hour == EndHour(current_hour, duration, last_hour)
             activity == [activity_type |-> "attraction", title |-> attr.name,
                          start |-> current_hour * 60, end |-> end_hour * 60]
         IN <<activity>> \o (IF end_hour + 1 > last_hour THEN <<>>
                             ELSE HalfDay(Tail(attrs), end_hour + 1, last_hour))

\* a meal activity; times in minutes of the day
Meal(city_food, meal_type, day_offset, start, end) ==
    LET IsType(f) == f.meal_type = meal_type
    IN IF day_offset < Len(SelectSeq(city_food, IsType))
       THEN <<[activity_type |-> "meal", title |-> meal_type, start |-> start, end |-> end]>>
       ELSE <<>>

\* nodes.py:421-501 -- the plan of one day of a city
DayPlan(city, city_attractions, city_food, days_in_city, day_offset) ==
    With(DayAttractions(city_attractions, days_in_city, day_offset),
         LAMBDA day_attractions :
            [ city |-> city,
              day_offset |-> day_offset,
              assigned |-> day_attractions,
              activities |->
                  Meal(city_food, "breakfast", day_offset, 8 * 60, 9 * 60)
                  \o HalfDay(Take(day_attractions, 2), 9, 12)
                  \o Meal(city_food, "lunch", day_offset, 12 * 60 + 30, 14 * 60)
                  \o HalfDay(SubSeq(day_attractions, 3, Min(4, Len(day_attractions))),
                             14, 18)
                  \o Meal(city_food, "dinner", day_offset, 19 * 60, 21 * 60) ])

\* nodes.py:388-504 -- the day plans of one city
CityPlans(city_info, attractions, food_recommendations) ==
    LET OfCity(f) == f.city = city_info.city
    IN With(CityAttractions(attractions, city_info.city, city_info.days),
            LAMBDA city_attractions :
               With(SelectSeq(food_recommendations, OfCity),
                    LAMBDA city_food :
                       [k \in 1..city_info.days |->
                           DayPlan(city_info.city, city_attractions, city_food,
                                   city_info.days, k - 1)]))

RECURSIVE DailyPlans(_, _, _, _)
\* nodes.py:385-504 -- the day plans of the cities from the i-th on, in visit
\* order
DailyPlans(sorted_cities, attractions, food_recommendations, i) ==
    IF i > Len(sorted_cities) THEN <<>>
    ELSE CityPlans(sorted_cities[i], attractions, food_recommendations)
         \o DailyPlans(sorted_cities, attractions, food_recommendations, i + 1)

\* nodes.py:506-571 -- the itinerary built from the day plans
Itinerary(st, sorted_cities, daily_plans) ==
    [ total_days |-> Val(st.trip_summary).total_days,
      cities_visited |-> [i \in DOMAIN sorted_cities |-> sorted_cities[i].city],
      daily_plans |-> daily_plans,
      warnings |-> IF IsNone(st.validation_result) THEN <<>>
                   ELSE Val(st.validation_result).final_recommendations,
      sources_consulted |-> st.research_sources,
      hotels |-> st.hotels ]

\* finalize_node: the itinerary assembled from the state
finalize_node(st) ==
    IF IsNone(st.city_allocations) \/ IsNone(st.trip_summary) THEN {}
    ELSE
    { [ final_itinerary |->
            Some(Itinerary(st, sorted_cities,
                           DailyPlans(sorted_cities, st.attractions,
                                      IF IsNone(st.food_recommendations) THEN <<>>
                                      ELSE Val(st.food_recommendations), 1))),
        messages |-> <<Msg("finalize")>> ]
      : sorted_cities \in { SortByVisitOrder(Val(st.city_allocations)) } }

\* the node table of create_travel_graph
NodeOutputs(n, st) ==
    CASE n = "clarification" -> clarification_node(st)
      [] n = "process_answers" -> process_answers_node(st)
      [] n = "planner" -> planner_node(st)
      [] n = "geography" -> geography_node(st)
      [] n = "research" -> research_node(st)
      [] n = "food_culture" -> food_culture_node(st)
      [] n = "transport_budget" -> transport_budget_node(st)
      [] n = "critic" -> critic_node(st)
      [] n = "finalize" -> finalize_node(st)

----------------------------------------------------------------------------
(* Edges *)

EntryPoint == "clarification"

\* variant of the edge: never waits for answers
needs_clarification_proceeds(st) ==
    IF FALSE /\ TruthyBool(st.clarification_needed) THEN "wait_for_answers"
    ELSE "proceed_to_planner"

needs_clarification(st) ==
    IF TruthyBool(st.clarification_needed) /\ ~TruthyDict(st.clarification_answers)
    THEN "wait_for_answers" ELSE "proceed_to_planner"

\* variant of the edge: always finalizes
should_replan_finalizes(st) ==
    IF FALSE /\ IsNone(st.validation_result) THEN "replan" ELSE "finalize"

should_replan(st) ==
    LET requires_replanning == IF IsNone(st.validation_result) THEN FALSE
                               ELSE Val(st.validation_result).requires_replanning
    IN IF requires_replanning THEN "replan" ELSE "finalize"

\* add_edge / add_conditional_edges of create_travel_graph
Route(n, st) ==
    CASE n = "clarification" ->
           IF needs_clarification(st) = "wait_for_answers" THEN "END" ELSE "planner"
      [] n = "process_answers" -> "planner"
      [] n = "planner" -> "geography"
      [] n = "geography" -> "research"
      [] n = "research" -> "food_culture"
      [] n = "food_culture" -> "transport_budget"
      [] n = "transport_budget" -> "critic"
      [] n = "critic" -> IF should_replan(st) = "replan" THEN "planner" ELSE "finalize"
      [] n = "finalize" -> "END"

----------------------------------------------------------------------------
(* The executor: graph.ainvoke / graph.astream_events / graph.update_state *)

\* planning_tasks of one WebSocket session: the tasks start_planning may create
TaskIds == {1, 2}

\* a task that start_planning has not created
NoTask == [phase |-> "none", pc |-> "END", running |-> FALSE, steps |-> 0,
           values |-> None]

\* the sessions of the process that search attractions
SearchSessions == {1, 2}

\* google_api.py:414 -- f"places_attractions_v2:{city}:{attraction_type or 'all'}"
cache_key(city, attraction_type) ==
    <<"places_attractions_v2", city,
      IF IsNone(attraction_type) THEN "all" ELSE Val(attraction_type)>>

SearchCities == {"Kyoto", "Tokyo"}
AttractionTypes == {None, Some("museum")}
CacheKeys == { cache_key(c, t) : c \in SearchCities, t \in AttractionTypes }

\* str.lower() of the city names the searches use
lower(name) ==
    CASE name = "Tokyo" -> "tokyo"
      [] name = "Kyoto" -> "kyoto"
      [] name = "Osaka" -> "osaka"
      [] name = "Japan" -> "japan"
      [] OTHER -> name

\* transport_cache.py:19-46 -- the key of a price query without class_type;
\* the md5 digest is taken as one-to-one on the normalized text
transport_price_key(mode, from_location, to_location, travel_date) ==
    <<"transport", mode, lower(from_location), lower(to_location), travel_date>>

\* transport_cache.py:50-62
station_info_key(city, country) == <<"stations", lower(city), lower(country)>>

\* the flight queries made: (from_city, to_city), on one travel date
FlightRoutes == { <<"Tokyo", "Osaka">>, <<"Tokyo", "Kyoto">> }
TransportKeys ==
    { transport_price_key("flight", r[1], r[2], "2026-05-01") : r \in FlightRoutes }
StationKeys == { station_info_key(c, "Japan") : c \in SearchCities }

\* every key the modelled tools use
StoredKeys == CacheKeys \cup TransportKeys \cup StationKeys

NoSearch == [phase |-> "idle", key |-> None, hit |-> FALSE, result |-> None]

\* a new process: nothing cached, no search made.  items[k] is the stored
\* entry [value, expire_time]; now is the clock, in units of 7200 seconds;
\* last_set[k] remembers the arguments and the time of the last set of k
\* that no delete or clear followed
EmptyCache ==
    [ items |-> [k \in StoredKeys |-> None],
      now |-> 0,
      last_set |-> [k \in StoredKeys |-> None],
      downstream_calls |-> [k \in StoredKeys |-> 0],
      searches |-> [s \in SearchSessions |-> NoSearch] ]

Init ==
    /\ state = get_initial_state
    /\ pc = "END"
    /\ status = "idle"
    /\ steps = 0
    /\ invocations = 0
    /\ interrupt_before = {}
    /\ caller \in { [kind |-> k, pos |-> "start", answers_event |-> FALSE,
                     pending_answers |-> None, is_cancelled |-> FALSE] : k \in {"rest", "cli", "ws"} }
    /\ h = [ lastNode |-> "none", prevNode |-> "none", lastReturned |-> FALSE,
             firstNode |-> "none",
             entry |-> "none", nodesRun |-> 0, sessionNodes |-> 0, finalWrites |-> 0,
             plannerStarted |-> FALSE, criticIter |-> 0,
             oracleRequires |-> FALSE, allReplan |-> TRUE, research |-> <<>> ]
    /\ tasks = [t \in TaskIds |-> NoTask]
    /\ browser_cache = EmptyCache

\* history: a new invocation of the graph begins
InvocationStarts(entry) ==
    [h EXCEPT !.entry = entry, !.firstNode = "none", !.nodesRun = 0,
              !.lastNode = "none", !.prevNode = "none", !.lastReturned = FALSE,
              !.finalWrites = IF entry = "run" THEN 0 ELSE @,
              !.plannerStarted = IF entry = "run" THEN FALSE ELSE @,
              !.criticIter = 0, !.oracleRequires = FALSE, !.allReplan = TRUE,
              !.research = <<>>]

\* graph.ainvoke(input, config): the input is written through the reducers
\* onto the thread's checkpoint and execution starts at the entry point
Invoke(input, interrupts, entry) ==
    /\ state' = ApplyWrites(state, input)
    /\ pc' = EntryPoint
    /\ status' = "running"
    /\ steps' = 0
    /\ invocations' = invocations + 1
    /\ interrupt_before' = interrupts
    /\ h' = InvocationStarts(entry)
    /\ UNCHANGED <<tasks, browser_cache>>

\* the outcomes of a research pass in which every call succeeds
NominalOutcomes(st) ==
    [i \in DOMAIN (IF IsNone(st.city_allocations) THEN <<>> ELSE Val(st.city_allocations))
       |-> NominalOutcome]

\* one superstep: the node pc returned the partial update upd; outcomes is
\* what the calls of a research pass did
SuperstepRecording(upd, oracle_requires, outcomes) ==
    LET merged == ApplyWrites(state, upd)
        next == Route(pc, merged)
    IN /\ state' = merged
       /\ pc' = next
       /\ status' = IF next # "END" THEN "running"
                    ELSE IF pc = "finalize" THEN "completed" ELSE "suspended"
       /\ steps' = steps + 1
       /\ h' = [h EXCEPT
                  !.lastNode = pc,
                  !.prevNode = h.lastNode,
                  !.lastReturned = TRUE,
                  !.firstNode = IF @ = "none" THEN pc ELSE @,
                  !.nodesRun = @ + 1,
                  !.sessionNodes = @ + 1,
                  !.finalWrites = IF pc = "finalize" THEN @ + 1 ELSE @,
                  !.plannerStarted = @ \/ pc = "planner",
                  !.criticIter = IF pc = "critic" THEN state.iteration_count ELSE @,
                  !.oracleRequires = IF pc = "critic" THEN oracle_requires ELSE @,
                  !.allReplan = IF pc = "critic" THEN @ /\ oracle_requires ELSE @,
                  !.research = IF pc = "research" THEN outcomes ELSE @]
       /\ UNCHANGED <<invocations, interrupt_before, caller, tasks, browser_cache>>

Superstep(upd, oracle_requires) ==
    SuperstepRecording(upd, oracle_requires, NominalOutcomes(state))

\* the executor stops the invocation without running pc
StopInvocation(how) ==
    /\ status' = how
    /\ pc' = "END"
    /\ UNCHANGED <<state, steps, invocations, interrupt_before, caller, h, tasks, browser_cache>>

\* the executor's checks before a superstep
MayRun ==
    /\ pc \in Nodes
    /\ status = "running"
    /\ pc \notin interrupt_before
    /\ steps < RecursionLimit

ExecuteNode ==
    /\ pc \in Nodes \ {"critic"}
    /\ status = "running"
    /\ IF pc \in interrupt_before THEN StopInvocation("interrupted")
       ELSE IF steps >= RecursionLimit THEN StopInvocation("out_of_steps")
       ELSE \E upd \in NodeOutputs(pc, state) : Superstep(upd, FALSE)

ExecuteCritic ==
    /\ pc = "critic"
    /\ status = "running"
    /\ IF pc \in interrupt_before THEN StopInvocation("interrupted")
       ELSE IF steps >= RecursionLimit THEN StopInvocation("out_of_steps")
       ELSE \E result \in CriticOutputs :
              Superstep(CriticUpdate(state.iteration_count,
                                     AfterCapCheck(state.iteration_count, result)),
                        result.requires_replanning)

\* the node raises: the invocation ends with the exception, the checkpoint
\* written before the node stays
NodeRaises ==
    /\ MayRun
    /\ status' = "failed"
    /\ pc' = "END"
    /\ steps' = steps + 1
    /\ h' = [h EXCEPT !.lastNode = pc, !.prevNode = h.lastNode, !.lastReturned = FALSE,
                      !.firstNode = IF @ = "none" THEN pc ELSE @,
                      !.plannerStarted = @ \/ pc = "planner"]
    /\ UNCHANGED <<state, invocations, interrupt_before, caller, tasks, browser_cache>>

----------------------------------------------------------------------------
(* REST boundary: api/main.py create_plan, api/routes/planning.py *)

Idle == pc = "END"

\* POST /plan (thread_id may be one already used), /plan/clarify, /plan/stream
RestPlan ==
    /\ caller.kind = "rest"
    /\ Idle /\ status # "failed"     \* a request that raised ends the client's session
    /\ invocations < MaxInvocations
    /\ Invoke(get_initial_state, {}, "run")
    /\ UNCHANGED caller

\* POST /plan/answers
RestAnswers ==
    /\ caller.kind = "rest"
    /\ Idle /\ status # "failed"
    /\ invocations > 0            \* current_state.values: else "Thread not found"
    /\ invocations < MaxInvocations
    /\ \E answers \in AnswerMaps :
         Invoke([state EXCEPT !.clarification_answers = Some(answers)], {},
                IF status = "suspended" THEN "resume" ELSE "resume_late")
    /\ UNCHANGED caller

----------------------------------------------------------------------------
(* CLI boundary: cli/main.py _run_planning *)

AsksQuestions ==
    TruthyBool(state.clarification_needed) /\ TruthySeq(state.clarification_questions)

CliStart ==
    /\ caller.kind = "cli"
    /\ caller.pos = "start"
    /\ Invoke(get_initial_state, {}, "run")
    /\ caller' = [caller EXCEPT !.pos = "phase1"]

\* lines 102-152: ask, store the answers in result, ainvoke(result, interrupt_before)
CliAnswer ==
    /\ caller.kind = "cli"
    /\ caller.pos = "phase1"
    /\ Idle /\ status # "failed"
    /\ AsksQuestions
    /\ Invoke([state EXCEPT !.clarification_answers =
                   Some(AnswersTo(Val(state.clarification_questions)))],
              {"process_answers"}, "resume")
    /\ caller' = [caller EXCEPT !.pos = "resume1"]

\* line 154: result = await graph.ainvoke(result, config)
CliResume ==
    /\ caller.kind = "cli"
    /\ caller.pos = "resume1"
    /\ Idle /\ status # "failed"
    /\ Invoke(state, {}, "rerun")
    /\ caller' = [caller EXCEPT !.pos = "phase2"]

\* lines 157-170: run the planning if there is no itinerary yet
CliPhase2 ==
    /\ caller.kind = "cli"
    /\ \/ caller.pos = "phase2"
       \/ caller.pos = "phase1" /\ ~AsksQuestions
    /\ Idle /\ status # "failed"
    /\ IF IsNone(state.final_itinerary)
       THEN Invoke(state, {}, "rerun")
       ELSE UNCHANGED <<state, pc, status, steps, invocations, interrupt_before, h, tasks, browser_cache>>
    /\ caller' = [caller EXCEPT !.pos = "done"]

----------------------------------------------------------------------------
(* WebSocket boundary: api/main.py websocket_plan, run_planning_with_updates *)

WsStartPlanning ==
    /\ caller.kind = "ws"
    /\ caller.pos = "start"
    /\ Invoke(get_initial_state, {}, "run")
    /\ caller' = [caller EXCEPT !.pos = "phase1"]

\* message answer_questions: stored whenever it arrives
WsAnswerQuestions ==
    /\ caller.kind = "ws"
    /\ \E answers \in AnswerMaps :
         caller' = [caller EXCEPT !.pending_answers = Some(answers),
                                  !.answers_event = TRUE]
    /\ UNCHANGED <<state, pc, status, steps, invocations, interrupt_before, h, tasks, browser_cache>>

\* lines 334-367: graph.update_state(config, {...}, as_node="clarification"),
\* then stream_graph(None) continues from the successor of clarification
WsResume ==
    /\ caller.kind = "ws"
    /\ caller.pos = "phase1"
    /\ Idle /\ status = "suspended"
    /\ TruthySeq(state.clarification_questions)
    /\ caller.answers_event
    /\ LET answers == IF TruthyDict(caller.pending_answers)
                      THEN Val(caller.pending_answers)
                      ELSE [q \in {} |-> ""]
           updated == ApplyWrites(state, [clarification_answers |-> Some(answers),
                                          clarification_needed |-> Some(FALSE)])
       IN /\ state' = updated
          /\ pc' = Route("clarification", updated)
    /\ status' = "running"
    /\ steps' = 0
    /\ invocations' = invocations + 1
    /\ interrupt_before' = {}
    /\ h' = InvocationStarts("resume")
    /\ caller' = [caller EXCEPT !.pos = "resumed", !.answers_event = FALSE]
    /\ UNCHANGED <<tasks, browser_cache>>

----------------------------------------------------------------------------
(* WebSocket boundary with its planning tasks: every start_planning message *)
(* creates a task running run_planning_with_updates on the session's       *)
(* thread; the tasks interleave at their awaits.  `state` and `pc` are the  *)
(* values and the next node of the thread's latest checkpoint; each task    *)
(* keeps the channel values of its own graph run.                           *)

\* answers of the critic oracle drawn for the tasks: the plan is approved
TaskCriticOutputs ==
    { CriticResult(TRUE, NoIssues, FALSE, None, None) }

TaskNodeOutputs(n, st) ==
    IF n = "critic"
    THEN { CriticUpdate(st.iteration_count, AfterCapCheck(st.iteration_count, result)) :
           result \in TaskCriticOutputs }
    ELSE NodeOutputs(n, st)

RunningTasks == {t \in TaskIds : tasks[t].running}

\* message start_planning: asyncio.create_task(run_planning_with_updates(...));
\* a task already stored in planning_tasks is neither awaited nor cancelled
WsCreateTask(t) ==
    /\ caller.kind = "ws"
    /\ tasks[t].phase = "none"
    /\ \A u \in TaskIds : u < t => tasks[u].phase # "none"
    /\ tasks' = [tasks EXCEPT ![t].phase = "created"]
    /\ UNCHANGED <<state, pc, status, steps, invocations, interrupt_before, caller, h, browser_cache>>

\* stream_graph(initial_state): the run loads the thread's checkpoint and
\* writes the input onto it
TaskBegins(t) ==
    /\ tasks[t].phase = "created"
    /\ ~caller.is_cancelled
    /\ LET values == ApplyWrites(state, get_initial_state)
       IN /\ tasks' = [tasks EXCEPT ![t] = [phase |-> "phase1", pc |-> EntryPoint,
                                            running |-> FALSE, steps |-> 0,
                                            values |-> values]]
          /\ state' = values
          /\ pc' = EntryPoint
    /\ UNCHANGED <<status, steps, invocations, interrupt_before, caller, h, browser_cache>>

\* the task's run calls its next node
TaskNodeStarts(t) ==
    /\ tasks[t].phase \in {"phase1", "phase2"}
    /\ tasks[t].pc \in Nodes
    /\ ~tasks[t].running
    /\ ~caller.is_cancelled
    /\ tasks[t].steps < RecursionLimit
    /\ tasks' = [tasks EXCEPT ![t].running = TRUE]
    /\ UNCHANGED <<state, pc, status, steps, invocations, interrupt_before, caller, h, browser_cache>>

\* what run_planning_with_updates does when stream_graph returned `result`,
\* the output of the last node: lines 334-344 wait for answers, else done
AfterStream(phase, node, upd) ==
    IF /\ phase = "phase1"
       /\ node = "clarification"
       /\ TruthyBool(upd.clarification_needed)
       /\ TruthySeq(upd.clarification_questions)
    THEN "waiting" ELSE "done"

\* the node returns: its update is merged, the checkpoint is written and the
\* outgoing edge is evaluated
TaskNodeReturns(t) ==
    /\ tasks[t].running
    /\ \E upd \in TaskNodeOutputs(tasks[t].pc, tasks[t].values) :
         LET merged == ApplyWrites(tasks[t].values, upd)
             next == Route(tasks[t].pc, merged)
         IN /\ tasks' = [tasks EXCEPT ![t] =
                  [phase |-> IF caller.is_cancelled THEN "done"
                             ELSE IF next = "END"
                             THEN AfterStream(tasks[t].phase, tasks[t].pc, upd)
                             ELSE tasks[t].phase,
                   pc |-> next, running |-> FALSE, steps |-> tasks[t].steps + 1,
                   values |-> merged]]
            /\ state' = merged
            /\ pc' = next
    /\ UNCHANGED <<status, steps, invocations, interrupt_before, caller, h, browser_cache>>

\* lines 346-367: the answers arrived; update_state(as_node="clarification")
\* on the thread's checkpoint, then stream_graph(None) continues from it
TaskResumes(t) ==
    /\ tasks[t].phase = "waiting"
    /\ caller.answers_event
    /\ ~caller.is_cancelled
    /\ LET answers == IF TruthyDict(caller.pending_answers)
                      THEN Val(caller.pending_answers)
                      ELSE [q \in {} |-> ""]
           updated == ApplyWrites(state, [clarification_answers |-> Some(answers),
                                          clarification_needed |-> Some(FALSE)])
           next == Route("clarification", updated)
       IN /\ state' = updated
          /\ pc' = next
          /\ tasks' = [tasks EXCEPT ![t] = [phase |-> "phase2", pc |-> next,
                                            running |-> FALSE, steps |-> 0,
                                            values |-> updated]]
    /\ caller' = [caller EXCEPT !.answers_event = FALSE]
    /\ UNCHANGED <<status, steps, invocations, interrupt_before, h, browser_cache>>

WsInit == Init /\ caller.kind = "ws"

WsNext ==
    \/ WsAnswerQuestions
    \/ \E t \in TaskIds :
         \/ WsCreateTask(t) \/ TaskBegins(t) \/ TaskNodeStarts(t)
         \/ TaskNodeReturns(t) \/ TaskResumes(t)

WsSpec == WsInit /\ [][WsNext]_vars

\* planning_tasks[session_id]: the task the last start_planning stored
LatestTask ==
    IF \A t \in TaskIds : tasks[t].phase = "none" THEN 0
    ELSE CHOOSE t \in TaskIds :
           /\ tasks[t].phase # "none"
           /\ \A u \in TaskIds : tasks[u].phase # "none" => u <= t

\* message cancel: session["is_cancelled"] = True, then
\* planning_tasks[session_id].cancel(); CancelledError reaches that task at
\* the await it is suspended on, the node it was running is abandoned
WsCancel ==
    /\ caller.kind = "ws"
    /\ ~caller.is_cancelled
    /\ caller' = [caller EXCEPT !.is_cancelled = TRUE]
    /\ tasks' = [t \in TaskIds |->
                   IF t = LatestTask /\ tasks[t].phase # "done"
                   THEN [tasks[t] EXCEPT !.phase = "cancelled", !.running = FALSE]
                   ELSE tasks[t]]
    /\ UNCHANGED <<state, pc, status, steps, invocations, interrupt_before, h, browser_cache>>

\* a task that was not cancelled reads session["is_cancelled"] at its next
\* event or after its wait for the answers, and returns
TaskStops(t) ==
    /\ caller.is_cancelled
    /\ tasks[t].phase \in {"created", "phase1", "phase2", "waiting"}
    /\ ~tasks[t].running
    /\ tasks' = [tasks EXCEPT ![t].phase = "done"]
    /\ UNCHANGED <<state, pc, status, steps, invocations, interrupt_before, caller, h, browser_cache>>

CancelNext ==
    \/ WsNext
    \/ WsCancel
    \/ \E t \in TaskIds : TaskStops(t)

CancelSpec == WsInit /\ [][CancelNext]_vars

----------------------------------------------------------------------------

Boundary ==
    \/ RestPlan \/ RestAnswers
    \/ CliStart \/ CliAnswer \/ CliResume \/ CliPhase2
    \/ WsStartPlanning \/ WsAnswerQuestions \/ WsResume

Next == Boundary \/ ExecuteNode \/ ExecuteCritic \/ NodeRaises

Spec == Init /\ [][Next]_vars

----------------------------------------------------------------------------
(* One node applied to the states its predecessors can leave *)

\* the executor about to run `node` on the state st, first invocation of a thread
AtNode(node, st) ==
    /\ state = st
    /\ pc = node
    /\ status = "running"
    /\ steps = 0
    /\ invocations = 1
    /\ interrupt_before = {}
    /\ caller = [kind |-> "rest", pos |-> "start", answers_event |-> FALSE,
                 pending_answers |-> None, is_cancelled |-> FALSE]
    /\ h = [ lastNode |-> "none", prevNode |-> "none", lastReturned |-> FALSE,
             firstNode |-> "none",
             entry |-> "run", nodesRun |-> 0, sessionNodes |-> 0, finalWrites |-> 0,
             plannerStarted |-> FALSE, criticIter |-> 0,
             oracleRequires |-> FALSE, allReplan |-> TRUE, research |-> <<>> ]
    /\ tasks = [t \in TaskIds |-> NoTask]
    /\ browser_cache = EmptyCache

\* bounds of the inputs of finalize_node
MaxTripDays == 2
MaxCityDays == 2
MaxAttractions == 6

\* what research may have accumulated: attractions of one city with distinct
\* names ("plain"), or of two cities with the last name repeating the first
\* ("mixed")
AttractionPatterns == {"plain", "mixed"}

AttractionName(pattern, i) ==
    <<"attraction", IF pattern = "mixed" /\ i = MaxAttractions THEN 1 ELSE i>>

AttractionCity(pattern, i) ==
    IF pattern = "mixed" /\ i = 5 THEN "Kyoto" ELSE "Tokyo"

\* the city_allocations the planner may have written: its output is stored as
\* the oracle gave it (planner.py:126-131), each entry with days >= 1 and
\* visit_order >= 1 (agent_outputs.py:29-30)
FinalizeAllocations ==
    { <<[city |-> "Tokyo", days |-> d, visit_order |-> 1]>> : d \in 1..MaxCityDays }
    \cup
    { << [city |-> "Kyoto", days |-> 1, visit_order |-> 2],
         [city |-> "Tokyo", days |-> d, visit_order |-> 1] >> : d \in 1..MaxCityDays }

\* estimated_duration_hours of an attraction, as int() gives it
AttractionDurations == {0, 1, 2, 3}

\* the attractions accumulated by research: n of them, the durations repeating
\* with period 3
FinalizeAttractions ==
    { [i \in 1..n |-> [city |-> AttractionCity(pattern, i),
                       name |-> AttractionName(pattern, i),
                       estimated_duration_hours |-> dur[((i - 1) % 3) + 1]]]
      : n \in 0..MaxAttractions, pattern \in AttractionPatterns,
        dur \in [1..3 -> AttractionDurations] }

\* the food recommendations: none, a lunch per city, or all meals of Tokyo
FinalizeFood ==
    { <<>>,
      <<[city |-> "Tokyo", meal_type |-> "lunch"], [city |-> "Kyoto", meal_type |-> "lunch"]>>,
      <<[city |-> "Tokyo", meal_type |-> "breakfast"], [city |-> "Tokyo", meal_type |-> "lunch"],
        [city |-> "Tokyo", meal_type |-> "dinner"], [city |-> "Tokyo", meal_type |-> "dinner"]>> }

FinalizeInit ==
    \E td \in 1..MaxTripDays, allocs \in FinalizeAllocations,
       attrs \in FinalizeAttractions, food \in FinalizeFood :
        AtNode("finalize",
               [get_initial_state EXCEPT !.trip_summary = Some([total_days |-> td]),
                                         !.city_allocations = Some(allocs),
                                         !.attractions = attrs,
                                         !.food_recommendations = Some(food)])

FinalizeNext == ExecuteNode

FinalizeSpec == FinalizeInit /\ [][FinalizeNext]_vars

----------------------------------------------------------------------------

(* planner_node over the outputs the oracle may give *)

\* bounds of the planner's outputs
MaxPlannerDays == 2
MaxPlannerCities == 2

\* what the oracle may answer for CityAllocation and PlannerOutput, before
\* the schema is applied
RawCityAllocations ==
    [city : {"Tokyo", "Kyoto"}, days : 0..MaxPlannerDays, visit_order : 1..MaxPlannerCities]

RawPlannerOutputs ==
    [ total_days : 1..(MaxPlannerDays + 1),
      city_allocations : UNION { [1..n -> RawCityAllocations] : n \in 0..MaxPlannerCities } ]

\* agent_outputs.py:29-30, 46 -- the Field(ge=1) constraints, the only
\* validation of a PlannerOutput
SchemaValid(result) ==
    /\ result.total_days >= 1
    /\ \A i \in DOMAIN result.city_allocations :
         /\ result.city_allocations[i].days >= 1
         /\ result.city_allocations[i].visit_order >= 1

\* the states the planner runs on: a fresh request, or a replan pass
PlannerInit ==
    \E st \in { get_initial_state,
                [get_initial_state EXCEPT !.iteration_count = 1,
                                          !.critic_feedback =
                                              Some(FeedbackText(CriticResult(
                                                  FALSE, CriticalIssue, TRUE, None,
                                                  None)))] } :
        AtNode("planner", st)

\* the structured call returned an output that passes the schema
PlannerReturns ==
    /\ pc = "planner" /\ MayRun
    /\ \E result \in RawPlannerOutputs :
         /\ SchemaValid(result)
         /\ Superstep(PlannerUpdate(result), FALSE)

\* the structured call raised on an output that fails the schema
PlannerRejects ==
    /\ pc = "planner"
    /\ \E result \in RawPlannerOutputs : ~SchemaValid(result)
    /\ NodeRaises

PlannerNext == PlannerReturns \/ PlannerRejects

PlannerSpec == PlannerInit /\ [][PlannerNext]_vars

----------------------------------------------------------------------------

(* geography_node over the orders the oracle may propose *)

\* bound of the length of optimized_order
MaxOrderLen == 3

\* the city names the oracle may put in optimized_order: those of the
\* allocations and one that is in none
OrderNames == {"Tokyo", "Kyoto", "Osaka", "Nara"}

GeographyOutputs ==
    { GeographyResult(TRUE, changed, order) :
        changed \in BOOLEAN,
        order \in UNION { [1..n -> OrderNames] : n \in 0..MaxOrderLen } }

\* what the planner wrote: two or three cities in visit order
GeographyAllocations ==
    { << [city |-> "Tokyo", days |-> 2, visit_order |-> 1],
         [city |-> "Kyoto", days |-> 1, visit_order |-> 2] >>,
      << [city |-> "Tokyo", days |-> 2, visit_order |-> 1],
         [city |-> "Kyoto", days |-> 1, visit_order |-> 2],
         [city |-> "Osaka", days |-> 1, visit_order |-> 3] >> }

GeographyInit ==
    \E allocs \in GeographyAllocations :
        AtNode("geography",
               [get_initial_state EXCEPT !.trip_summary = Some([total_days |-> 3]),
                                         !.city_allocations = Some(allocs)])

\* geography_node runs on one answer of the oracle
GeographyRuns ==
    /\ pc = "geography" /\ MayRun
    /\ \E result \in GeographyOutputs : Superstep(GeographyUpdate(state, result), FALSE)

GeographyNext == GeographyRuns

GeographySpec == GeographyInit /\ [][GeographyNext]_vars

----------------------------------------------------------------------------

(* research_node over the outcomes of its calls *)

\* the outcomes of one research_city that differ in what they return
ResearchOutcomes ==
    { ResearchOutcome(api, "found", fb, hapi, hfb) :
        api \in {"exception", "error", "empty"}, fb \in {"fails", "found"},
        hapi \in {"error", "data"}, hfb \in {"fails", "found"} }
    \cup
    { ResearchOutcome("data", st, fb, hapi, hfb) :
        st \in {"raises", "empty", "found"}, fb \in {"fails", "found"},
        hapi \in {"error", "data"}, hfb \in {"fails", "found"} }

\* the allocations research runs on: three cities, an entry without a city
\* name, no entry
ResearchAllocations ==
    { << [city |-> "Tokyo", days |-> 1, visit_order |-> 1],
         [city |-> "Kyoto", days |-> 1, visit_order |-> 2],
         [city |-> "Osaka", days |-> 1, visit_order |-> 3] >>,
      << [city |-> "Tokyo", days |-> 1, visit_order |-> 1],
         [city |-> "", days |-> 1, visit_order |-> 2] >>,
      << >> }

ResearchInit ==
    \E allocs \in ResearchAllocations :
        AtNode("research",
               [get_initial_state EXCEPT !.trip_summary = Some([total_days |-> 3]),
                                         !.city_allocations = Some(allocs)])

\* research_node runs; the calls of every city do one of the outcomes
ResearchRuns ==
    /\ pc = "research" /\ MayRun
    /\ \E outcomes \in [DOMAIN Val(state.city_allocations) -> ResearchOutcomes] :
         SuperstepRecording(ResearchUpdate(state, outcomes), FALSE, outcomes)

ResearchNext == ResearchRuns

ResearchSpec == ResearchInit /\ [][ResearchNext]_vars

----------------------------------------------------------------------------

(* research_node over the orders in which its subtasks finish *)

\* the outcomes of a subtask: every call succeeds, the data source fails and
\* the fallback delivers, the structuring call raises
GatherOutcomes ==
    { NominalOutcome,
      ResearchOutcome("error", "found", "found", "error", "found"),
      ResearchOutcome("data", "raises", "found", "data", "found") }

\* three cities, listed in visit order, sorted by name or not
GatherAllocations ==
    { << [city |-> "Tokyo", days |-> 1, visit_order |-> 1],
         [city |-> "Kyoto", days |-> 1, visit_order |-> 2],
         [city |-> "Osaka", days |-> 1, visit_order |-> 3] >>,
      << [city |-> "Kyoto", days |-> 1, visit_order |-> 1],
         [city |-> "Osaka", days |-> 1, visit_order |-> 2],
         [city |-> "Tokyo", days |-> 1, visit_order |-> 3] >> }

\* the orders in which n subtasks may finish
CompletionOrders(n) ==
    { f \in [1..n -> 1..n] : \A i, j \in 1..n : f[i] = f[j] => i = j }

GatherInit ==
    \E allocs \in GatherAllocations :
        AtNode("research",
               [get_initial_state EXCEPT !.trip_summary = Some([total_days |-> 3]),
                                         !.city_allocations = Some(allocs)])

\* research_node runs; the subtasks finish in some order
ResearchCompletes ==
    /\ pc = "research" /\ MayRun
    /\ \E outcomes \in [DOMAIN Val(state.city_allocations) -> GatherOutcomes],
          finished \in CompletionOrders(Len(Val(state.city_allocations))) :
         SuperstepRecording(
             ResearchUpdateIn(state, outcomes, finished), FALSE,
             [i \in DOMAIN outcomes |-> outcomes[i] @@ [finished |-> finished[i]]])

GatherNext == ResearchCompletes

GatherSpec == GatherInit /\ [][GatherNext]_vars

----------------------------------------------------------------------------

(* search_attractions_places_api and the BrowserCache shared by the sessions *)

\* stats()["item_count"]
ItemCount == Cardinality({ k \in StoredKeys : ~IsNone(browser_cache.items[k]) })

\* TTLs in units of 7200 seconds
\* settings.py:24 -- cache_ttl_seconds = 86400
default_ttl == 12
\* google_api.py:35 -- 604800
ATTRACTION_CACHE_TTL == 84
\* transport_cache.py:8 -- 14400
TRANSPORT_CACHE_TTL == 2
\* transport_cache.py:11 -- 7200
DYNAMIC_ROUTE_TTL == 1
\* transport_cache.py:14 -- 604800
STATION_CACHE_TTL == 84

\* BrowserCache.get: diskcache returns the value of an entry whose
\* expire_time is later than the clock, else the default None
get(cache, key) ==
    LET entry == cache.items[key]
    IN IF ~IsNone(entry) /\ Val(entry).expire_time > cache.now
       THEN Some(Val(entry).value)
       ELSE None

\* BrowserCache.set: self.cache.set(key, value, expire=ttl or self.default_ttl)
set(cache, key, value, ttl) ==
    LET expire == IF IsNone(ttl) \/ Val(ttl) = 0 THEN default_ttl ELSE Val(ttl)
    IN [cache EXCEPT
          !.items[key] = Some([value |-> value, expire_time |-> cache.now + expire]),
          !.last_set[key] = Some([value |-> value, ttl |-> ttl, at |-> cache.now])]

\* BrowserCache.delete
delete(cache, key) ==
    [cache EXCEPT !.items[key] = None, !.last_set[key] = None]

\* BrowserCache.clear
clear(cache) ==
    [cache EXCEPT !.items = [k \in StoredKeys |-> None],
                  !.last_set = [k \in StoredKeys |-> None]]

\* what the Places text search may answer
DownstreamAnswers == {"places", "no places", "error"}

\* google_api.py:413-419 -- the search looks the key up; a hit returns the
\* cached text, a miss goes on to the text search (google_api.py:437-438)
SearchStarts(s) ==
    /\ browser_cache.searches[s].phase = "idle"
    /\ \E city \in SearchCities, attraction_type \in AttractionTypes :
         LET key == cache_key(city, attraction_type)
             cached == get(browser_cache, key)
         IN browser_cache' =
              IF ~IsNone(cached)
              THEN [browser_cache EXCEPT
                      !.searches[s] = [phase |-> "done", key |-> Some(key),
                                       hit |-> TRUE, result |-> cached]]
              ELSE [browser_cache EXCEPT
                      !.searches[s] = [phase |-> "awaiting", key |-> Some(key),
                                       hit |-> FALSE, result |-> None],
                      !.downstream_calls[key] = @ + 1]
    /\ UNCHANGED <<state, pc, status, steps, invocations, interrupt_before, caller, h,
                   tasks>>

\* google_api.py:438-463 -- the text search answers; the result is stored
\* only if it has no error and at least one attraction
SearchReturns(s) ==
    /\ browser_cache.searches[s].phase = "awaiting"
    /\ \E answer \in DownstreamAnswers :
         LET key == Val(browser_cache.searches[s].key)
             answered == [browser_cache EXCEPT
                            !.searches[s].phase = "done",
                            !.searches[s].result = Some(answer)]
         IN browser_cache' =
              IF answer = "places"
              THEN set(answered, key, answer, Some(ATTRACTION_CACHE_TTL))
              ELSE answered
    /\ UNCHANGED <<state, pc, status, steps, invocations, interrupt_before, caller, h,
                   tasks>>

CacheNext == \E s \in SearchSessions : SearchStarts(s) \/ SearchReturns(s)

CacheSpec == Init /\ [][CacheNext]_vars

\* the clock may run this far
MaxClock == 3

\* time passes
ClockTick ==
    /\ browser_cache.now < MaxClock
    /\ browser_cache' = [browser_cache EXCEPT !.now = @ + 1]
    /\ UNCHANGED <<state, pc, status, steps, invocations, interrupt_before, caller, h,
                   tasks>>

\* the keys, values and ttl arguments the direct calls of the cache use
DirectKeys == StationKeys
CacheValues == {"text", "other text"}
Ttls == {None, Some(0), Some(1), Some(2)}

CacheSet ==
    /\ \E key \in DirectKeys, value \in CacheValues, ttl \in Ttls :
         browser_cache' = set(browser_cache, key, value, ttl)
    /\ UNCHANGED <<state, pc, status, steps, invocations, interrupt_before, caller, h,
                   tasks>>

CacheDelete ==
    /\ \E key \in DirectKeys : browser_cache' = delete(browser_cache, key)
    /\ UNCHANGED <<state, pc, status, steps, invocations, interrupt_before, caller, h,
                   tasks>>

CacheClear ==
    /\ browser_cache' = clear(browser_cache)
    /\ UNCHANGED <<state, pc, status, steps, invocations, interrupt_before, caller, h,
                   tasks>>

BrowserCacheNext == CacheSet \/ CacheDelete \/ CacheClear \/ ClockTick

BrowserCacheSpec == Init /\ [][BrowserCacheNext]_vars

\* transport_cache.py:79-120 -- the route is in high_freq_routes
is_high_frequency_route(from_location, to_location) ==
    <<lower(from_location), lower(to_location)>> \in
        { <<"tokyo", "osaka">>, <<"osaka", "tokyo">> }

\* transport_cache.py:123-134
get_transport_cache_ttl(from_location, to_location) ==
    IF is_high_frequency_route(from_location, to_location)
    THEN DYNAMIC_ROUTE_TTL ELSE TRANSPORT_CACHE_TTL

\* how the page of a scraper may end: data extracted, navigate_and_wait
\* returned False, or an exception was raised inside the try block
FlightAnswers == {"flights", "not loaded", "exception"}
StationAnswers == {"stations", "exception"}

\* the results that carry an error
ErrorResults == {"error", "not loaded", "exception"}

\* a tool looks its key up: a hit returns the cached text, a miss goes to
\* the source
LookupStarts(s, key) ==
    LET cached == get(browser_cache, key)
    IN browser_cache' =
         IF ~IsNone(cached)
         THEN [browser_cache EXCEPT
                 !.searches[s] = [phase |-> "done", key |-> Some(key),
                                  hit |-> TRUE, result |-> cached]]
         ELSE [browser_cache EXCEPT
                 !.searches[s] = [phase |-> "awaiting", key |-> Some(key),
                                  hit |-> FALSE, result |-> None],
                 !.downstream_calls[key] = @ + 1]

\* transport_scrapers.py:45-50
FlightsStarts(s) ==
    /\ browser_cache.searches[s].phase = "idle"
    /\ \E r \in FlightRoutes :
         LookupStarts(s, transport_price_key("flight", r[1], r[2], "2026-05-01"))
    /\ UNCHANGED <<state, pc, status, steps, invocations, interrupt_before, caller, h,
                   tasks>>

\* transport_scrapers.py:67-138 -- a page that did not load returns the
\* error result at once; extracted data and the result of the except branch
\* both reach cache.set
FlightsReturns(s) ==
    /\ browser_cache.searches[s].phase = "awaiting"
    /\ Val(browser_cache.searches[s].key) \in TransportKeys
    /\ \E answer \in FlightAnswers, r \in FlightRoutes :
         LET key == Val(browser_cache.searches[s].key)
             answered == [browser_cache EXCEPT
                            !.searches[s].phase = "done",
                            !.searches[s].result = Some(answer)]
         IN /\ key = transport_price_key("flight", r[1], r[2], "2026-05-01")
            /\ browser_cache' =
                 IF answer = "not loaded"
                 THEN answered
                 ELSE set(answered, key, answer,
                          Some(get_transport_cache_ttl(r[1], r[2])))
    /\ UNCHANGED <<state, pc, status, steps, invocations, interrupt_before, caller, h,
                   tasks>>

\* transport_scrapers.py:594-599
StationsStarts(s) ==
    /\ browser_cache.searches[s].phase = "idle"
    /\ \E city \in SearchCities : LookupStarts(s, station_info_key(city, "Japan"))
    /\ UNCHANGED <<state, pc, status, steps, invocations, interrupt_before, caller, h,
                   tasks>>

\* transport_scrapers.py:610-651 -- the result, with or without an error, is
\* stored
StationsReturns(s) ==
    /\ browser_cache.searches[s].phase = "awaiting"
    /\ Val(browser_cache.searches[s].key) \in StationKeys
    /\ \E answer \in StationAnswers :
         LET key == Val(browser_cache.searches[s].key)
             answered == [browser_cache EXCEPT
                            !.searches[s].phase = "done",
                            !.searches[s].result = Some(answer)]
         IN browser_cache' = set(answered, key, answer, Some(STATION_CACHE_TTL))
    /\ UNCHANGED <<state, pc, status, steps, invocations, interrupt_before, caller, h,
                   tasks>>

\* the searches of the sessions through the three cached tools, and time
ToolsNext ==
    \/ ClockTick
    \/ \E s \in SearchSessions :
         \/ SearchStarts(s) \/ SearchReturns(s)
         \/ FlightsStarts(s) \/ FlightsReturns(s)
         \/ StationsStarts(s) \/ StationsReturns(s)

ToolsSpec == Init /\ [][ToolsNext]_vars

----------------------------------------------------------------------------

\* every node call returns; the executor runs a scheduled node
NextReturning == Boundary \/ ExecuteNode \/ ExecuteCritic

FairSpec == Init /\ [][NextReturning]_vars /\ WF_vars(ExecuteNode) /\ WF_vars(ExecuteCritic)

----------------------------------------------------------------------------
(* Properties *)

\* critic.py:52-56 -- DECISION CRITERIA FOR RE-PLANNING given to the oracle:
\* any critical issue, or three or more high issues
ReplanRule(issues) ==
    \/ \E i \in DOMAIN issues : issues[i].severity = "critical"
    \/ Cardinality({i \in DOMAIN issues : issues[i].severity = "high"}) >= 3

\* the last node call of the running/ended invocation was a critic pass
AfterCritic == h.lastNode = "critic" /\ h.lastReturned

\* most node executions of one invocation: clarification, six nodes per pass,
\* finalize
MaxNodeExecutions == 1 + 6 * (MAX_REPLAN_ITERATIONS + 1) + 1

\* C1: provided every node call returns, a Run never exhausts the recursion
\* limit, executes at most 1 + 6 * (MAX_REPLAN_ITERATIONS + 1) + 1 nodes, and a
\* running Run eventually ends suspended or completed.
C1_RunTerminates ==
    /\ [](h.entry = "run" =>
            /\ status # "out_of_steps"
            /\ h.nodesRun <= MaxNodeExecutions
            /\ steps <= RecursionLimit)
    /\ ((h.entry = "run" /\ status = "running")
           ~> (h.entry = "run" /\ status \in {"suspended", "completed"}))

\* a first Run that used every replan pass and was completed by finalize
C1_Witness ==
    /\ invocations = 1 /\ h.entry = "run"
    /\ status = "completed"
    /\ h.nodesRun = MaxNodeExecutions

\* C2: iteration_count stays in 0..MAX_REPLAN_ITERATIONS; a critic pass adds
\* one exactly when it writes requires_replanning = TRUE, and at the cap it
\* writes FALSE and adds nothing.
C2_IterationCountBounded ==
    /\ state.iteration_count \in 0..MAX_REPLAN_ITERATIONS
    /\ AfterCritic =>
         LET requires == Val(state.validation_result).requires_replanning
         IN /\ state.iteration_count = h.criticIter + (IF requires THEN 1 ELSE 0)
            /\ h.criticIter >= MAX_REPLAN_ITERATIONS => ~requires

\* a critic pass at the cap whose oracle asked to replan
C2_Witness ==
    /\ AfterCritic
    /\ h.criticIter = MAX_REPLAN_ITERATIONS
    /\ h.oracleRequires
    /\ state.iteration_count = MAX_REPLAN_ITERATIONS

\* C3: final_itinerary is written only by finalize, directly after a critic
\* pass that wrote requires_replanning = FALSE, and once in the whole session
\* (all invocations of the thread counted).
C3_FinalItineraryWrittenOnce ==
    /\ h.finalWrites <= 1
    /\ state.final_itinerary # None => h.finalWrites >= 1
    /\ (h.lastNode = "finalize" /\ h.lastReturned) =>
         /\ h.prevNode = "critic"
         /\ ~Val(state.validation_result).requires_replanning

\* C4: the node called after a critic pass is planner when the pass wrote
\* requires_replanning = TRUE and finalize when it wrote FALSE.
C4_CriticSuccessor ==
    [][ (AfterCritic /\ steps' = steps + 1) =>
            h'.lastNode = IF Val(state.validation_result).requires_replanning
                          THEN "planner" ELSE "finalize" ]_vars

\* the planner ran on the replan edge
C4_Witness ==
    /\ h.prevNode = "critic" /\ h.lastNode = "planner" /\ h.lastReturned
    /\ Val(state.validation_result).requires_replanning

\* C5: a Run is suspended after clarification exactly when clarification_needed
\* is true and clarification_answers is empty; a suspended Run executed
\* clarification only, its checkpoint holds the questions and final_itinerary
\* is unset.
C5_SuspendsExactlyWhenNeeded ==
    /\ (h.entry = "run" /\ h.lastNode = "clarification" /\ h.lastReturned) =>
         ((status = "suspended") <=>
            (TruthyBool(state.clarification_needed)
               /\ ~TruthyDict(state.clarification_answers)))
    /\ (h.entry = "run" /\ status = "suspended") =>
         /\ h.lastNode = "clarification" /\ h.nodesRun = 1 /\ pc = "END"
         /\ state.clarification_questions # None
         /\ state.final_itinerary = None

\* a Run suspended with questions to ask
C5_Witness ==
    /\ h.entry = "run" /\ status = "suspended"
    /\ TruthySeq(state.clarification_questions)

\* C6: an invocation that resumes a suspended session with answers starts at
\* process_answers, and the planner runs only once process_answers has
\* written the user facts.
C6_ResumeStartsAtProcessAnswers ==
    /\ (h.entry = "resume" /\ TruthyDict(state.clarification_answers)
          /\ h.firstNode # "none") => h.firstNode = "process_answers"
    /\ (h.entry = "resume" /\ TruthyDict(state.clarification_answers)
          /\ h.lastNode = "planner") => state.travel_date_flexibility # None

\* C7: answers supplied to a session that is past the suspension point (the
\* planner has started or final_itinerary is set) start nothing and change
\* no state field.
C7_LateResumeIsNoOp ==
    [][ ( /\ h.plannerStarted \/ state.final_itinerary # None
          /\ invocations' = invocations + 1
          /\ h'.entry \in {"resume", "resume_late"} )
        => (state' = state /\ pc' = "END") ]_vars

\* C8: when the oracle asks to replan in every pass, the invocation is still
\* completed, with iteration_count at the cap, an approved validation_result
\* holding the synthetic process issue, and a final_itinerary.
C8_AlwaysReplanStillCompletes ==
    /\ []((status = "completed" /\ h.allReplan) =>
            /\ state.iteration_count = MAX_REPLAN_ITERATIONS
            /\ ~Val(state.validation_result).requires_replanning
            /\ Val(state.validation_result).is_valid
            /\ \E i \in DOMAIN Val(state.validation_result).issues :
                 Val(state.validation_result).issues[i] = SyntheticIssue
            /\ state.final_itinerary # None)
    /\ ((pc = "critic" /\ status = "running")
           ~> (status = "completed" \/ ~h.allReplan))

\* a first Run completed although the oracle asked to replan in all four passes
C8_Witness ==
    /\ invocations = 1
    /\ status = "completed" /\ h.allReplan
    /\ h.nodesRun = MaxNodeExecutions

C10_ReplanCarriesFeedback ==
    /\ (AfterCritic /\ pc = "planner" /\ status = "running") =>
         TruthySeq(state.critic_feedback)
    /\ (h.lastNode = "planner" /\ h.lastReturned) => state.critic_feedback = None

\* C11: nodes run in the order clarification, planner, geography, research,
\* food_culture, price_scraper, transport_budget, critic, and again from the
\* planner on a replan: every node but the first of an invocation runs right
\* after its predecessor in that order, price_scraper between food_culture
\* and transport_budget.
C11_NodeOrder ==
    /\ h.lastNode = "planner" =>
         h.prevNode \in {"none", "clarification", "process_answers", "critic"}
    /\ h.lastNode = "geography" => h.prevNode = "planner"
    /\ h.lastNode = "research" => h.prevNode = "geography"
    /\ h.lastNode = "food_culture" => h.prevNode = "research"
    /\ h.lastNode = "price_scraper" => h.prevNode = "food_culture"
    /\ h.lastNode = "transport_budget" => h.prevNode = "price_scraper"
    /\ h.lastNode = "critic" => h.prevNode = "transport_budget"

\* C12: within one session at most one node is running at any time, whatever
\* messages the client sends (a second start_planning during a running plan
\* included), and a task calls a node only when its previous node returned.
C12_OneNodeAtATime ==
    Cardinality(RunningTasks) <= 1

IsPrefix(a, b) == Len(a) <= Len(b) /\ \A i \in DOMAIN a : a[i] = b[i]

ClarificationEntries ==
    Cardinality({i \in DOMAIN state.messages : state.messages[i].name = "clarification"})

C15_ForcedIssuesBecomeWarnings ==
    ( /\ h.lastNode = "finalize" /\ h.lastReturned
      /\ h.oracleRequires /\ h.criticIter >= MAX_REPLAN_ITERATIONS ) =>
        LET issues == Val(state.validation_result).issues
            warnings == Val(state.final_itinerary).warnings
        IN \A i \in DOMAIN issues :
             \E j \in DOMAIN warnings : warnings[j] = issues[i].category

\* number of activities of one type in a day plan
CountActivities(day, type) ==
    LET IsType(a) == a.activity_type = type
    IN Len(SelectSeq(day.activities, IsType))

RECURSIVE SumAttractions(_)
\* attraction activities summed over day plans
SumAttractions(days) ==
    IF days = <<>> THEN 0
    ELSE CountActivities(Head(days), "attraction") + SumAttractions(Tail(days))

\* C16: every day plan of a final itinerary holds at most 4 attraction
\* activities and at most 3 meal activities, and the attraction activities of
\* all day plans together are at most 4 x total_days
C16_ActivityCaps ==
    ~IsNone(state.final_itinerary) =>
        LET it == Val(state.final_itinerary)
        IN /\ \A i \in DOMAIN it.daily_plans :
                /\ CountActivities(it.daily_plans[i], "attraction") <= 4
                /\ CountActivities(it.daily_plans[i], "meal") <= 3
           /\ SumAttractions(it.daily_plans) <= 4 * it.total_days

RECURSIVE SumDays(_)
SumDays(allocations) ==
    IF allocations = <<>> THEN 0 ELSE Head(allocations).days + SumDays(Tail(allocations))

\* C17: after a successful planner execution the days of city_allocations sum
\* to trip_summary.total_days, every city has at least 1 day, and the
\* visit_order values are a permutation of 1..N
C17_PlannerOutputConsistent ==
    (h.lastNode = "planner" /\ h.lastReturned) =>
        LET allocations == Val(state.city_allocations)
        IN /\ SumDays(allocations) = Val(state.trip_summary).total_days
           /\ \A i \in DOMAIN allocations : allocations[i].days >= 1
           /\ { allocations[i].visit_order : i \in DOMAIN allocations }
                  = 1..Len(allocations)

\* the allocations whose research subtask raised in the latest research pass
RaisedSubtasks ==
    { i \in DOMAIN h.research :
        /\ Val(state.city_allocations)[i].city # ""
        /\ h.research[i].api = "data" /\ h.research[i].structure = "raises" }

\* every element of the sequence part occurs in the sequence whole
AllIn(part, whole) ==
    \A i \in DOMAIN part : \E j \in DOMAIN whole : whole[j] = part[i]

\* C18: when the research subtask of a city raises, the research node still
\* returns; what the subtasks of the other cities returned is in attractions
\* and hotels, and research_sources holds an error marker naming the city
C18_SubtaskFailureAbsorbed ==
    (h.lastNode = "research" /\ RaisedSubtasks # {}) =>
        /\ h.lastReturned /\ status # "failed"
        /\ \A i \in RaisedSubtasks :
             \E j \in DOMAIN state.research_sources :
                state.research_sources[j] = ErrorMarker(Val(state.city_allocations)[i].city)
        /\ \A i \in DOMAIN h.research \ RaisedSubtasks :
             LET r == research_city(Val(state.city_allocations)[i], h.research[i],
                                    state.iteration_count)
             IN AllIn(r.attractions, state.attractions) /\ AllIn(r.hotels, state.hotels)

\* three cities, the subtask of the second raised, the other two delivered
C18_Witness ==
    /\ h.lastNode = "research" /\ h.lastReturned
    /\ Len(Val(state.city_allocations)) = 3
    /\ RaisedSubtasks = {2}
    /\ \E j \in DOMAIN state.attractions : state.attractions[j].city = "Tokyo"
    /\ \E j \in DOMAIN state.attractions : state.attractions[j].city = "Osaka"
    /\ \E j \in DOMAIN state.hotels : state.hotels[j].city = "Osaka"

\* C19: after a research execution every allocation with a non-empty city
\* name has at least one attraction of that city or a fallback-source entry
\* of that city in research_sources
C19_AttractionOrFallbackSource ==
    (h.lastNode = "research" /\ h.lastReturned) =>
        \A i \in DOMAIN Val(state.city_allocations) :
            LET city == Val(state.city_allocations)[i].city
            IN city # "" =>
                 \/ \E j \in DOMAIN state.attractions : state.attractions[j].city = city
                 \/ \E j \in DOMAIN state.research_sources :
                       state.research_sources[j]
                           = Source("LLM Knowledge Base", city, "attractions")

\* C20: when two sessions have made the same attractions query and both were
\* answered with places, the downstream source was called exactly once for
\* it, one of the two sessions was answered from the cache, and the cache
\* holds exactly one item more than the empty cache it started from
C20_SecondSearchHitsCache ==
    \A s1, s2 \in SearchSessions :
        LET a == browser_cache.searches[s1]
            b == browser_cache.searches[s2]
        IN (s1 # s2 /\ a.phase = "done" /\ b.phase = "done" /\ a.key = b.key
            /\ a.result = Some("places") /\ b.result = Some("places"))
           => /\ browser_cache.downstream_calls[Val(a.key)] = 1
              /\ a.hit \/ b.hit
              /\ ItemCount = 1

\* the day plans of one city, in order
PlansOf(daily_plans, city) ==
    LET OfCity(d) == d.city = city
    IN SelectSeq(daily_plans, OfCity)

RECURSIVE Assigned(_, _)
\* the attractions assigned to the day plans from the i-th on, in order
Assigned(plans, i) ==
    IF i > Len(plans) THEN <<>> ELSE plans[i].assigned \o Assigned(plans, i + 1)

\* C23: for a city with D days whose list of attractions (filtered by city,
\* de-duplicated by name, capped at 4*D) has A entries, day k = 0..D-1 is
\* assigned floor(A/D) + (1 if k < A mod D else 0) attractions, the days'
\* shares are consecutive slices of the list, and together they are the list
C23_AttractionsDistributed ==
    ~IsNone(state.final_itinerary) =>
        \A c \in DOMAIN Val(state.city_allocations) :
            LET city_info == Val(state.city_allocations)[c]
                D == city_info.days
                list == CityAttractions(state.attractions, city_info.city, D)
                A == Len(list)
                plans == PlansOf(Val(state.final_itinerary).daily_plans, city_info.city)
            IN /\ Len(plans) = D
               /\ \A k \in 0..(D - 1) :
                    /\ plans[k + 1].day_offset = k
                    /\ Len(plans[k + 1].assigned)
                         = (A \div D) + (IF k < A % D THEN 1 ELSE 0)
               /\ Assigned(plans, 1) = list

\* a city with 2 days and 5 attractions has days of 3 and 2; a city with 1
\* day keeps 4 of 6 attractions, one name being a repeat
DistributionCase(days, attractions, first, second) ==
    /\ ~IsNone(state.final_itinerary)
    /\ Len(state.attractions) = attractions
    /\ \E c \in DOMAIN Val(state.city_allocations) :
         LET plans == PlansOf(Val(state.final_itinerary).daily_plans,
                              Val(state.city_allocations)[c].city)
         IN /\ Val(state.city_allocations)[c].days = days
            /\ Len(plans) = days
            /\ Len(plans[1].assigned) = first
            /\ Len(plans[days].assigned) = second

C23_Witness == DistributionCase(2, 5, 3, 2)

\* the fixed slots of the meals, in minutes of the day
MealSlots ==
    [breakfast |-> <<8 * 60, 9 * 60>>, lunch |-> <<12 * 60 + 30, 14 * 60>>,
     dinner |-> <<19 * 60, 21 * 60>>]

\* an attraction activity of the morning / of the afternoon
IsMorning(a) == a.activity_type = "attraction" /\ a.start < 12 * 60 + 30
IsAfternoon(a) == a.activity_type = "attraction" /\ a.start >= 12 * 60 + 30

\* C24: in every day plan the activities are in chronological order and no
\* two slots overlap: every meal has its fixed slot, the morning attractions
\* start at 09:00 and end by 12:00, the afternoon attractions start at 14:00
\* and end by 18:00, and consecutive attractions of a half-day are one hour
\* apart
C24_SlotsOrdered ==
    ~IsNone(state.final_itinerary) =>
        \A d \in DOMAIN Val(state.final_itinerary).daily_plans :
            LET acts == Val(state.final_itinerary).daily_plans[d].activities
            IN /\ \A i \in DOMAIN acts :
                    /\ acts[i].start <= acts[i].end
                    /\ acts[i].activity_type = "meal" =>
                          <<acts[i].start, acts[i].end>> = MealSlots[acts[i].title]
                    /\ IsMorning(acts[i]) =>
                          acts[i].start >= 9 * 60 /\ acts[i].end <= 12 * 60
                    /\ IsAfternoon(acts[i]) =>
                          acts[i].start >= 14 * 60 /\ acts[i].end <= 18 * 60
               /\ \A i \in DOMAIN acts : \A j \in DOMAIN acts :
                    i < j => acts[i].end <= acts[j].start
               /\ \A i \in DOMAIN acts :
                    (i < Len(acts)
                     /\ \/ IsMorning(acts[i]) /\ IsMorning(acts[i + 1])
                        \/ IsAfternoon(acts[i]) /\ IsAfternoon(acts[i + 1]))
                       => acts[i + 1].start = acts[i].end + 60
               /\ (\E i \in DOMAIN acts : IsMorning(acts[i])) =>
                      \E i \in DOMAIN acts : IsMorning(acts[i]) /\ acts[i].start = 9 * 60
               /\ (\E i \in DOMAIN acts : IsAfternoon(acts[i])) =>
                      \E i \in DOMAIN acts : IsAfternoon(acts[i]) /\ acts[i].start = 14 * 60

\* a day with the three meals and four attractions, the morning ones cut at
\* 12:00
C24_Witness ==
    /\ ~IsNone(state.final_itinerary)
    /\ \E d \in DOMAIN Val(state.final_itinerary).daily_plans :
         LET day == Val(state.final_itinerary).daily_plans[d]
         IN /\ CountActivities(day, "meal") = 3
            /\ CountActivities(day, "attraction") = 4
            /\ \E i \in DOMAIN day.assigned : day.assigned[i].estimated_duration_hours = 3
            /\ \E i \in DOMAIN day.activities :
                 IsMorning(day.activities[i]) /\ day.activities[i].end = 12 * 60

\* C28: every attraction assigned to a day is among the day's activities with
\* a slot that ends after it starts
C28_AssignedAttractionsScheduled ==
    ~IsNone(state.final_itinerary) =>
        \A d \in DOMAIN Val(state.final_itinerary).daily_plans :
            LET day == Val(state.final_itinerary).daily_plans[d]
            IN \A i \in DOMAIN day.assigned :
                 \E j \in DOMAIN day.activities :
                    /\ day.activities[j].activity_type = "attraction"
                    /\ day.activities[j].title = day.assigned[i].name
                    /\ day.activities[j].end > day.activities[j].start

\* C29: every hotel of final_itinerary.hotels is of a city of the current
\* city_allocations and is listed once
C29_HotelsOfCurrentCitiesOnce ==
    ~IsNone(state.final_itinerary) =>
        LET hotels == Val(state.final_itinerary).hotels
            allocations == Val(state.city_allocations)
        IN /\ \A i \in DOMAIN hotels :
                \E c \in DOMAIN allocations : allocations[c].city = hotels[i].city
           /\ \A i \in DOMAIN hotels : \A j \in DOMAIN hotels :
                i # j => hotels[i] # hotels[j]

\* the rank of a city name in alphabetical order
CityRank == [Kyoto |-> 1, Osaka |-> 2, Tokyo |-> 3]

\* the stable key of an entry of city `city`: city name, then visit_order
StableKey(city) ==
    LET allocations == Val(state.city_allocations)
        c == CHOOSE i \in DOMAIN allocations : allocations[i].city = city
    IN <<CityRank[city], allocations[c].visit_order>>

KeyLeq(a, b) == a[1] < b[1] \/ (a[1] = b[1] /\ a[2] <= b[2])

C25_RewriteKeepsCitiesAndDays ==
    [][ (pc = "geography" /\ state'.city_allocations # state.city_allocations) =>
          LET old == Val(state.city_allocations)
              new == Val(state'.city_allocations)
          IN /\ Len(new) = Len(old)
             /\ \A i \in DOMAIN old :
                  \E j \in DOMAIN new :
                     /\ new[j].city = old[i].city /\ new[j].days = old[i].days
                     /\ \A k \in DOMAIN new : new[k].city = old[i].city => k = j
             /\ { new[j].visit_order : j \in DOMAIN new } = 1..Len(new) ]_vars

\* C22: a step in which a node raises adds an entry to messages and leaves
\* the other fields of the checkpointed state as they were, and once the
\* session has failed no node executes any more
C22_FailureRecorded ==
    [][ /\ (status # "failed" /\ status' = "failed") =>
             /\ Len(state'.messages) = Len(state.messages) + 1
             /\ \A k \in DOMAIN state \ {"messages"} : state'[k] = state[k]
        /\ status = "failed" =>
             /\ status' = "failed"
             /\ h'.sessionNodes = h.sessionNodes ]_vars

\* C27: once the session is cancelled, no task starts a node and the values of
\* the thread's checkpoint stay what they were.
C27_CancelStops ==
    [][caller.is_cancelled =>
         /\ RunningTasks' \subseteq RunningTasks
         /\ state' = state]_vars

\* C21: get(key) after set(key, value, ttl), with no delete or clear of the
\* key since, returns the value while fewer than ttl time units have passed
\* since the set, and a miss from then on (a set without ttl uses the
\* default TTL).
C21_GetAfterSet ==
    \A key \in StoredKeys :
        LET last == browser_cache.last_set[key]
        IN ~IsNone(last) =>
             LET ttl == IF IsNone(Val(last).ttl) THEN default_ttl ELSE Val(Val(last).ttl)
                 elapsed == browser_cache.now - Val(last).at
             IN get(browser_cache, key) =
                  IF elapsed < ttl THEN Some(Val(last).value) ELSE None

\* C30: no result carrying an error is readable from the cache, and no
\* query is answered from the cache with such a result.
C30_ErrorsNotCached ==
    /\ \A key \in StoredKeys :
         get(browser_cache, key) \notin { Some(e) : e \in ErrorResults }
    /\ \A s \in SearchSessions :
         browser_cache.searches[s].hit =>
             browser_cache.searches[s].result \notin { Some(e) : e \in ErrorResults }

====
